---- MODULE Spec2Model ----
(***************************************************************************)
(* Model of src/code_grant/frontend.rs: the three front-end flows          *)
(* (AuthorizationFlow, GrantFlow, AccessFlow), each a prepare step         *)
(* followed by a handle step.  One invocation runs at a time; the calls    *)
(* handle makes on its collaborators (back-end, consent handler, response  *)
(* constructors) are recorded in order in `calls`.                         *)
(***************************************************************************)
EXTENDS Integers, Sequences, FiniteSets, TLC

VARIABLES
    host,       \* the WebResponse implementation (Req::Response) of this invocation
    flow,       \* which flow the current invocation runs
    pc,         \* position inside prepare/handle
    request,    \* what the WebRequest reports: query, urlbody, authheader
    params,     \* the parameter view built by prepare
    calls,      \* the calls made so far in this invocation, in order
    pending,    \* value carried to the next call (url, owner, response ...)
    result      \* what the invocation returned

vars == <<host, flow, pc, request, params, calls, pending, result>>

(***************************************************************************)
(* Bounds                                                                  *)
(***************************************************************************)
\* longest value list a key of a query/body mapping carries
MaxVals == 2

(***************************************************************************)
(* Values                                                                  *)
(***************************************************************************)
None == [some |-> FALSE]
Some(v) == [some |-> TRUE, val |-> v]

\* Result<T, ()> of the WebRequest accessors
ReqErr == [ok |-> FALSE]
ReqOk(v) == [ok |-> TRUE, val |-> v]

\* Url: a base and the query pairs appended to it
Url(base, query) == [base |-> base, query |-> query]

Urls ==
    { Url("https://c/cb", <<"code=abc", "state=xyz">>),
      Url("https://c/cb", <<"error=access_denied", "state=xyz">>) }

\* ErrorUrl: a base url plus the error still to be encoded into it
ErrorUrls ==
    { [base_url |-> Url("https://c/cb", <<"state=xyz">>), error |-> "invalid_scope"],
      [base_url |-> Url("https://c/other", <<>>), error |-> "access_denied"] }

\* impl Into<Url> for ErrorUrl: the error is appended to the base url's query
ErrorUrlInto(target) ==
    Url(target.base_url.base,
        Append(target.base_url.query, "error=" \o target.error))

Owners == {"alice", "bob"}

\* OAuthError and the host error Req::Error
OAuthErrors == {"InternalCodeError", "InternalAccessError", "AccessDenied"}

\* impl From<OAuthError> for Req::Error
FromOAuthError(e) == [source |-> "oauth", error |-> e]

\* errors the host itself raises: in the consent handler, or in the response
\* constructor named fn
ConsentError == [source |-> "host", error |-> "get_owner_authorization"]
ResponseError(fn) == [source |-> "host", error |-> fn]

\* Result<Req::Response, Req::Error> of handle; prepare that unwinds is "panic"
NoResult == [kind |-> "none"]
RetOk(v) == [kind |-> "ok", val |-> v]
RetErr(e) == [kind |-> "err", error |-> e]
Panicked == [kind |-> "panic"]

(***************************************************************************)
(* WebResponse of the host.  A response is what the constructors made of   *)
(* it: how it was built, its body or target, status and auth header.       *)
(***************************************************************************)
NoUrl == Url("", <<>>)

Response(built, body, target, status, auth) ==
    [built |-> built, body |-> body, target |-> target,
     status |-> status, auth |-> auth]

\* WebResponse::redirect
redirect(url) == Response("redirect", "", url, 302, None)

\* WebResponse::text
text(t) == Response("text", t, NoUrl, 200, None)

\* WebResponse::json
json(data) == Response("json", data, NoUrl, 200, None)

\* WebResponse::as_client_error
as_client_error(r) == [r EXCEPT !.status = 400]

\* WebResponse::as_unauthorized
as_unauthorized(r) == [r EXCEPT !.status = 401]

\* WebResponse::with_authorization
with_authorization(r, kind) == [r EXCEPT !.auth = Some(kind)]

\* a host's own redirect_error, augmenting the error redirect
redirect_error_override(target) ==
    Response("redirect_error", "see https://help", ErrorUrlInto(target), 302, None)

\* the implementations of WebResponse: with the provided redirect_error, or
\* with one of their own
Hosts == [overrides_redirect_error : BOOLEAN]
DefaultHost == [overrides_redirect_error |-> FALSE]

\* responses the consent handler hands back next to its verdict
ConsentResponses == { text("consent page"), text("login page") }

\* one recorded call: the function, its argument, who called it ("handle",
\* or "redirect_error" when the default redirect_error forwards) and what
\* it returned
Arg(t, v) == [t |-> t, v |-> v]
NoArg == [t |-> "none"]
Call(fn, arg, by, ret) == [fn |-> fn, arg |-> arg, by |-> by, ret |-> ret]

NoPending == [t |-> "none"]

(***************************************************************************)
(* Requests: key -> values mappings as the transport decoded them          *)
(***************************************************************************)
AuthKeys == {"client_id", "scope", "redirect_url", "state"}
GrantKeys == {"client_id", "code", "redirect_url", "grant_type"}
UnknownKey == "extra"

KeyVals == <<"v1", "v2">>

\* the value list of length n: v1, v2, v1, ...
Repeated(n) == [i \in 1..n |-> KeyVals[((i - 1) % 2) + 1]]

\* the value lists a key can carry: none, exactly one, or several values
ValLists == {Repeated(n) : n \in 0..MaxVals}

\* HashMap<String, Vec<String>> over the given keys, with or without the
\* unrecognized key
Maps(keys) ==
    UNION { [S \cup U -> ValLists] \cap
              {m \in [S \cup U -> ValLists] : \A k \in U : m[k] = Repeated(1)} :
            <<S, U>> \in (SUBSET keys) \X {{}, {UnknownKey}} }

\* map.get(key) on the filtered single-valued map
Get(map, key) == IF key \in DOMAIN map THEN Some(map[key]) ELSE None

\* SingleValued without the filter on the length: the first value of any
\* key that has values
SingleValued_FirstValue(m) ==
    [k \in {k \in DOMAIN m : Len(m[k]) >= 1} |-> m[k][1]]

\* params.iter().filter(|&(_, v)| v.len() == 1).map(|(k, v)| (k, v[0])).collect()
SingleValued(m) ==
    [k \in {k \in DOMAIN m : Len(m[k]) = 1} |-> m[k][1]]

(***************************************************************************)
(* AuthorizationFlow                                                       *)
(***************************************************************************)
\* fn extract_parameters
extract_parameters(m) ==
    LET map == SingleValued(m) IN
    [valid |-> TRUE,
     client_id |-> Get(map, "client_id"),
     scope |-> Get(map, "scope"),
     redirect_url |-> Get(map, "redirect_url"),
     state |-> Get(map, "state")]

\* AuthorizationParameter::invalid
AuthorizationParameter_invalid ==
    [valid |-> FALSE, client_id |-> None, scope |-> None,
     redirect_url |-> None, state |-> None]

NoParams == [valid |-> FALSE]
NoRequest == [none |-> TRUE]

\* verdicts of the back-end for negotiate / deny / authorize
Ignore == [v |-> "Ignore"]
Redirect(u) == [v |-> "Redirect", url |-> u]
Ok(x) == [v |-> "Ok", val |-> x]

\* the registered clients a successful negotiate yields
Clients == {"app"}

NegotiateVerdicts == {Ignore} \cup {Redirect(u) : u \in ErrorUrls} \cup {Ok(c) : c \in Clients}
CodeVerdicts == {Ignore} \cup {Redirect(u) : u \in ErrorUrls} \cup {Ok(u) : u \in Urls}

\* the consent handler's answers
Failed == [a |-> "Failed"]
InProgress == [a |-> "InProgress"]
Authenticated(o) == [a |-> "Authenticated", owner |-> o]
Authentications == {Failed, InProgress} \cup {Authenticated(o) : o \in Owners}

\* AuthorizationFlow::prepare
AuthPrepare ==
    /\ pc = "idle"
    /\ \E q \in {ReqErr} \cup {ReqOk(m) : m \in Maps(AuthKeys)} :
         /\ request' = [query |-> q]
         /\ params' = IF q.ok THEN extract_parameters(q.val)
                               ELSE AuthorizationParameter_invalid
    /\ host' \in Hosts
    /\ flow' = "auth"
    /\ pc' = "prepared"
    /\ result' = RetOk(Arg("prepared", "PreparedAuthorization"))
    /\ UNCHANGED <<calls, pending>>

\* where handle stands after a step: its position, what it returned (if it
\* returned) and the value it carries on
Goto(p, carried) == [pc |-> p, result |-> NoResult, pending |-> carried]
Return(r) == [pc |-> "done", result |-> r, pending |-> NoPending]

\* NegotiateMatch going on to the consent handler after a Redirect verdict
NegotiateMatch_ConsentAfterRedirect(verdict) ==
    CASE verdict.v = "Ignore" -> Return(RetErr(FromOAuthError("InternalCodeError")))
      [] verdict.v = "Redirect" -> Goto("negotiated", Arg("client", "app"))
      [] verdict.v = "Ok" -> Goto("negotiated", Arg("client", verdict.val))

\* match granter.negotiate(&urldecoded) { Ignore, Redirect(url), Ok(v) }
NegotiateMatch(verdict) ==
    CASE verdict.v = "Ignore" -> Return(RetErr(FromOAuthError("InternalCodeError")))
      [] verdict.v = "Redirect" -> Goto("redirect_error", Arg("error_url", verdict.url))
      [] verdict.v = "Ok" -> Goto("negotiated", Arg("client", verdict.val))

\* ConsentMatch with the InProgress arm missing its return: it falls into deny
ConsentMatch_InProgressFallsThrough(answer) ==
    IF answer.kind = "err" THEN Return(answer)
    ELSE CASE answer.val.auth.a = "Failed" -> Goto("deny", NoArg)
           [] answer.val.auth.a = "InProgress" -> Goto("deny", NoArg)
           [] answer.val.auth.a = "Authenticated" ->
                Goto("authorize", Arg("owner", answer.val.auth.owner))

\* ConsentMatch with the Failed and Authenticated arms swapped
ConsentMatch_ArmsSwapped(answer) ==
    IF answer.kind = "err" THEN Return(answer)
    ELSE CASE answer.val.auth.a = "Failed" -> Goto("authorize", Arg("owner", ""))
           [] answer.val.auth.a = "InProgress" -> Return(RetOk(answer.val.response))
           [] answer.val.auth.a = "Authenticated" -> Goto("deny", NoArg)

\* ConsentMatch answering InProgress with a response of its own making
ConsentMatch_InProgressModified(answer) ==
    IF answer.kind = "err" THEN Return(answer)
    ELSE CASE answer.val.auth.a = "Failed" -> Goto("deny", NoArg)
           [] answer.val.auth.a = "InProgress" ->
                Return(RetOk(as_unauthorized(answer.val.response)))
           [] answer.val.auth.a = "Authenticated" ->
                Goto("authorize", Arg("owner", answer.val.auth.owner))

\* ConsentMatch reporting the consent handler's error as an internal error
ConsentMatch_ErrorReplaced(answer) ==
    IF answer.kind = "err" THEN Return(RetErr(FromOAuthError("InternalCodeError")))
    ELSE CASE answer.val.auth.a = "Failed" -> Goto("deny", NoArg)
           [] answer.val.auth.a = "InProgress" -> Return(RetOk(answer.val.response))
           [] answer.val.auth.a = "Authenticated" ->
                Goto("authorize", Arg("owner", answer.val.auth.owner))

\* match page_handler.get_owner_authorization(..)? { Failed, InProgress, Authenticated }
ConsentMatch(answer) ==
    IF answer.kind = "err" THEN Return(answer)
    ELSE CASE answer.val.auth.a = "Failed" -> Goto("deny", NoArg)
           [] answer.val.auth.a = "InProgress" -> Return(RetOk(answer.val.response))
           [] answer.val.auth.a = "Authenticated" ->
                Goto("authorize", Arg("owner", answer.val.auth.owner))

\* AuthorizationMatch reporting Ignore as the other internal error
AuthorizationMatch_WrongInternalError(verdict) ==
    CASE verdict.v = "Ignore" -> Return(RetErr(FromOAuthError("InternalAccessError")))
      [] verdict.v = "Redirect" -> Goto("redirect_error", Arg("error_url", verdict.url))
      [] verdict.v = "Ok" -> Goto("redirect", Arg("url", verdict.val))

\* AuthorizationMatch falling back to deny() when the call was ignored
AuthorizationMatch_RetriesOnIgnore(verdict) ==
    CASE verdict.v = "Ignore" -> Goto("deny", NoArg)
      [] verdict.v = "Redirect" -> Goto("redirect_error", Arg("error_url", verdict.url))
      [] verdict.v = "Ok" -> Goto("redirect", Arg("url", verdict.val))

\* AuthorizationMatch handing the error url to redirect itself
AuthorizationMatch_RedirectBypassesHook(verdict) ==
    CASE verdict.v = "Ignore" -> Return(RetErr(FromOAuthError("InternalCodeError")))
      [] verdict.v = "Redirect" -> Goto("redirect", Arg("url", ErrorUrlInto(verdict.url)))
      [] verdict.v = "Ok" -> Goto("redirect", Arg("url", verdict.val))

\* match authorization { Ignore, Redirect(url), Ok(v) }
AuthorizationMatch(verdict) ==
    CASE verdict.v = "Ignore" -> Return(RetErr(FromOAuthError("InternalCodeError")))
      [] verdict.v = "Redirect" -> Goto("redirect_error", Arg("error_url", verdict.url))
      [] verdict.v = "Ok" -> Goto("redirect", Arg("url", verdict.val))

\* handle moves on as the match decided
Continue(next) ==
    /\ pc' = next.pc
    /\ result' = next.result
    /\ pending' = next.pending

\* let negotiated = match granter.negotiate(&urldecoded) ...
AuthNegotiate ==
    /\ flow = "auth" /\ pc = "prepared"
    /\ \E verdict \in NegotiateVerdicts :
         /\ calls' = Append(calls, Call("negotiate", Arg("params", params), "handle", verdict))
         /\ Continue(NegotiateMatch(verdict))
    /\ UNCHANGED <<host, flow, request, params>>

\* what the consent handler may return
ConsentAnswers ==
    {RetErr(ConsentError)} \cup
    {RetOk([auth |-> a, response |-> r]) : a \in Authentications, r \in ConsentResponses}

\* page_handler.get_owner_authorization(req, negotiated.negotiated())?
AuthConsent ==
    /\ flow = "auth" /\ pc = "negotiated"
    /\ \E answer \in ConsentAnswers :
         /\ calls' = Append(calls, Call("get_owner_authorization", pending, "handle", answer))
         /\ Continue(ConsentMatch(answer))
    /\ UNCHANGED <<host, flow, request, params>>

\* (Authentication::Failed, _) => negotiated.deny()
AuthDeny ==
    /\ flow = "auth" /\ pc = "deny"
    /\ \E verdict \in CodeVerdicts :
         /\ calls' = Append(calls, Call("deny", pending, "handle", verdict))
         /\ Continue(AuthorizationMatch(verdict))
    /\ UNCHANGED <<host, flow, request, params>>

\* (Authentication::Authenticated(owner), _) => negotiated.authorize(owner.into())
AuthAuthorize ==
    /\ flow = "auth" /\ pc = "authorize"
    /\ \E verdict \in CodeVerdicts :
         /\ calls' = Append(calls, Call("authorize", pending, "handle", verdict))
         /\ Continue(AuthorizationMatch(verdict))
    /\ UNCHANGED <<host, flow, request, params>>

\* redirect_error forwarding the base url without the error encoded into it
redirect_error_target_base(target) == target.base_url

\* the url the default WebResponse::redirect_error hands to redirect:
\* Self::redirect(target.into())
redirect_error_target(target) == ErrorUrlInto(target)

\* return Req::Response::redirect_error(url): the default forwards to
\* redirect, a host that overrides it builds the response itself
AuthRedirectError ==
    /\ flow = "auth" /\ pc = "redirect_error"
    /\ IF host.overrides_redirect_error
         THEN \E r \in { RetOk(redirect_error_override(pending.v)),
                          RetErr(ResponseError("redirect_error")) } :
                /\ calls' = Append(calls, Call("redirect_error", pending, "handle", r))
                /\ Continue(Return(r))
         ELSE LET url == redirect_error_target(pending.v) IN
              \E r \in { RetOk(redirect(url)), RetErr(ResponseError("redirect")) } :
                /\ calls' = calls \o
                      << Call("redirect_error", pending, "handle", r),
                         Call("redirect", Arg("url", url), "redirect_error", r) >>
                /\ Continue(Return(r))
    /\ UNCHANGED <<host, flow, request, params>>

\* Req::Response::redirect(redirect_to), the last line of handle
AuthRedirect ==
    /\ flow = "auth" /\ pc = "redirect"
    /\ \E r \in { RetOk(redirect(pending.v)), RetErr(ResponseError("redirect")) } :
         /\ calls' = Append(calls, Call("redirect", pending, "handle", r))
         /\ Continue(Return(r))
    /\ UNCHANGED <<host, flow, request, params>>

(***************************************************************************)
(* GrantFlow                                                               *)
(***************************************************************************)
\* header text, one character per element
Chars_Basic == <<"B", "a", "s", "i", "c", " ">>

\* the Authorization headers a request may carry
Headers ==
    { <<"B", "a", "s", "i", "c", " ", "Y", "X", "B", "w", "O", "n", "M", "z", "Y", "3", "J", "l", "d", "A", "=", "=">>,      \* Basic YXBwOnMzY3JldA==  (base64 of app:s3cret)
      <<"B", "a", "s", "i", "c", " ", "a", "p", "p", ":", "c", "z", "N", "j", "c", "m", "V", "0">>,    \* Basic app:czNjcmV0      (app : base64 of s3cret)
      <<"B", "a", "s", "i", "c", " ", "a", "p", "p", ":", "c", "z", "M", "=">>,      \* Basic app:czM=          (app : base64 of s3)
      <<"B", "a", "s", "i", "c", " ", "a", "p", "p", ":">>,    \* Basic app:              (empty secret)
      <<"B", "e", "a", "r", "e", "r", " ", "a", "b", "c">>,   \* Bearer abc
      <<"b", "a", "s", "i", "c", " ", "a", "p", "p", ":", "c", "z", "M", "=">>,    \* basic app:czM=          (prefix in lower case)
      <<"B", "a", "s", "i">>,    \* Basi                    (shorter than the prefix)
      <<"B", "a", "s", "i", "c", " ", "a", "p", "p">>,  \* Basic app               (no separator)
      <<"B", "a", "s", "i", "c", " ", "a", "p", "p", ":", "c", "*", "M", "=">>,      \* Basic app:c*M=          (not base64)
      <<"B", "a", "s", "i", "c", " ", "a", "p", "p", ":", "c", "z", ":", "M">>,      \* Basic app:cz:M          (':' inside the secret part)
      <<"B", "a", "s", "i", "c", " ", "a", "p", "p", ":", "c">> }     \* Basic app:c             (impossible base64 length)

\* the base64 alphabet, value 0 first
Base64Alphabet ==
    <<"A", "B", "C", "D", "E", "F", "G", "H", "I", "J", "K", "L", "M", "N", "O", "P", "Q", "R", "S", "T", "U", "V", "W", "X", "Y", "Z", "a", "b", "c", "d", "e", "f">> \o
    <<"g", "h", "i", "j", "k", "l", "m", "n", "o", "p", "q", "r", "s", "t", "u", "v", "w", "x", "y", "z", "0", "1", "2", "3", "4", "5", "6", "7", "8", "9", "+", "/">>

Base64Value(c) == (CHOOSE i \in 1..64 : Base64Alphabet[i] = c) - 1

IsBase64Char(c) == \E i \in 1..64 : Base64Alphabet[i] = c

\* number of '=' ending the text
RECURSIVE TrailingPad(_)
TrailingPad(s) ==
    IF Len(s) > 0 /\ s[Len(s)] = "="
      THEN 1 + TrailingPad(SubSeq(s, 1, Len(s) - 1))
      ELSE 0

\* the bytes encoded by a run of base64 symbols: 4 symbols give 3 bytes, a
\* last group of 2 gives 1 byte and of 3 gives 2 bytes
RECURSIVE Base64Bytes(_)
Base64Bytes(s) ==
    IF Len(s) < 2 THEN <<>>
    ELSE LET a == Base64Value(s[1])
             b == Base64Value(s[2])
             c == IF Len(s) >= 3 THEN Base64Value(s[3]) ELSE 0
             d == IF Len(s) >= 4 THEN Base64Value(s[4]) ELSE 0
             n == ((a * 64 + b) * 64 + c) * 64 + d
             three == <<n \div 65536, (n \div 256) % 256, n % 256>>
         IN  IF Len(s) >= 4
               THEN three \o Base64Bytes(SubSeq(s, 5, Len(s)))
               ELSE SubSeq(three, 1, Len(s) - 1)

\* base64::decode: Err on a symbol outside the alphabet, on misplaced
\* padding and on a length no encoding has
base64_decode(s) ==
    LET pad == TrailingPad(s)
        data == SubSeq(s, 1, Len(s) - pad)
    IN  IF \/ \E i \in 1..Len(data) : ~IsBase64Char(data[i])
           \/ pad > 2
           \/ Len(data) % 4 = 1
           \/ (pad > 0 /\ (Len(data) + pad) % 4 # 0)
          THEN ReqErr
          ELSE ReqOk(Base64Bytes(data))

\* header.starts_with(prefix)
starts_with(s, prefix) ==
    /\ Len(s) >= Len(prefix)
    /\ SubSeq(s, 1, Len(prefix)) = prefix

\* text.splitn(2, ':'): the pieces before and after the first ':'
splitn2(s) ==
    IF \E i \in 1..Len(s) : s[i] = ":"
      THEN LET i == CHOOSE i \in 1..Len(s) :
                       /\ s[i] = ":"
                       /\ \A j \in 1..(i - 1) : s[j] # ":"
           IN  <<SubSeq(s, 1, i - 1), SubSeq(s, i + 1, Len(s))>>
      ELSE <<s>>

\* BasicCredentials keeping the client id when the secret does not decode
BasicCredentials_KeepsClient(header) ==
    IF ~starts_with(header, Chars_Basic) THEN None
    ELSE LET split == splitn2(SubSeq(header, 7, Len(header))) IN
         IF Len(split) < 2 THEN None
         ELSE LET passwd == base64_decode(split[2]) IN
              IF ~passwd.ok THEN Some([id |-> split[1], pass |-> <<>>])
              ELSE Some([id |-> split[1], pass |-> passwd.val])

\* the Some(ref header) arm of create_valid_params: None when the function
\* returns early, else the (client, passwd) pair
BasicCredentials(header) ==
    IF ~starts_with(header, Chars_Basic) THEN None
    ELSE LET split == splitn2(SubSeq(header, 7, Len(header))) IN
         IF Len(split) < 2 THEN None
         ELSE LET passwd == base64_decode(split[2]) IN
              IF ~passwd.ok THEN None
              ELSE Some([id |-> split[1], pass |-> passwd.val])

\* fn extract_access_token
extract_access_token(m) ==
    LET map == SingleValued(m) IN
    [valid |-> TRUE,
     client_id |-> Get(map, "client_id"),
     code |-> Get(map, "code"),
     redirect_url |-> Get(map, "redirect_url"),
     grant_type |-> Get(map, "grant_type"),
     authorization |-> None]

\* AccessTokenParameter::invalid
AccessTokenParameter_invalid ==
    [valid |-> FALSE, client_id |-> None, code |-> None,
     redirect_url |-> None, grant_type |-> None, authorization |-> None]

\* what authheader() may report
AuthHeaders == {ReqErr, ReqOk(None)} \cup {ReqOk(Some(h)) : h \in Headers}

\* create_valid_params taking a missing header for a malformed one
create_valid_params_MissingHeaderRejected(h, b) ==
    IF ~h.ok THEN [out |-> "panic"]
    ELSE LET authorization == IF h.val.some THEN BasicCredentials(h.val.val)
                                            ELSE None
         IN  IF ~authorization.some THEN [out |-> "None"]
             ELSE IF ~b.ok THEN [out |-> "panic"]
             ELSE [out |-> "Some",
                   val |-> [extract_access_token(b.val) EXCEPT
                              !.authorization = authorization]]

\* GrantFlow::create_valid_params: "panic" where an unwrap() hits Err, "None"
\* where it returns early
create_valid_params(h, b) ==
    IF ~h.ok THEN [out |-> "panic"]
    ELSE LET authorization == IF h.val.some THEN BasicCredentials(h.val.val)
                                            ELSE Some(None)
         IN  IF ~authorization.some THEN [out |-> "None"]
             ELSE IF ~b.ok THEN [out |-> "panic"]
             ELSE [out |-> "Some",
                   val |-> [extract_access_token(b.val) EXCEPT
                              !.authorization = IF h.val.some THEN authorization ELSE None]]

\* what urlbody() may report
UrlBodies == {ReqErr} \cup {ReqOk(m) : m \in Maps(GrantKeys)}

\* GrantFlow::prepare
GrantPrepare ==
    /\ pc = "idle"
    /\ \E h \in AuthHeaders, b \in UrlBodies :
         LET created == create_valid_params(h, b) IN
         /\ request' = [authheader |-> h, urlbody |-> b]
         /\ IF created.out = "panic"
              THEN /\ params' = NoParams
                   /\ pc' = "panicked"
                   /\ result' = Panicked
              ELSE /\ params' = IF created.out = "Some" THEN created.val
                                                        ELSE AccessTokenParameter_invalid
                   /\ pc' = "prepared"
                   /\ result' = RetOk(Arg("prepared", "PreparedGrant"))
    /\ flow' = "grant"
    /\ UNCHANGED <<host, calls, pending>>

\* what the issuer hands back: token responses and error descriptions
Tokens == {"token"}
InvalidErrors == {"invalid_grant"}
UnauthorizedErrors == {"invalid_client"}
Schemes == {"Basic realm=\"oauth\"", "Bearer"}

\* to_json() of a token response or an error description
to_json(x) ==
    IF x \in Tokens
      THEN "{\"access_token\":\"" \o x \o "\",\"token_type\":\"bearer\"}"
      ELSE "{\"error\":\"" \o x \o "\"}"

\* verdicts of the issuer for use_code
Invalid(e) == [v |-> "Invalid", json_data |-> e]
Unauthorized(e, scheme) == [v |-> "Unauthorized", json_data |-> e, scheme |-> scheme]

IssuerVerdicts ==
    {Ok(t) : t \in Tokens} \cup {Invalid(e) : e \in InvalidErrors}
      \cup {Unauthorized(e, sch) : e \in UnauthorizedErrors, sch \in Schemes}

\* the body each arm of the match on use_code hands to json
JsonData(verdict) ==
    IF verdict.v = "Ok" THEN to_json(verdict.val) ELSE to_json(verdict.json_data)

\* Modifiers adding the header before it sets the status
Modifiers_HeaderBeforeStatus(verdict) ==
    CASE verdict.v = "Invalid" -> <<"as_client_error">>
      [] verdict.v = "Unauthorized" -> <<"with_authorization", "as_unauthorized">>
      [] verdict.v = "Ok" -> <<>>

\* Modifiers answering an Invalid verdict with 401 instead of 400
Modifiers_InvalidAsUnauthorized(verdict) ==
    CASE verdict.v = "Invalid" -> <<"as_unauthorized">>
      [] verdict.v = "Unauthorized" -> <<"as_unauthorized", "with_authorization">>
      [] verdict.v = "Ok" -> <<>>

\* the modifiers each arm of the match on use_code chains after json, in order
Modifiers(verdict) ==
    CASE verdict.v = "Invalid" -> <<"as_client_error">>
      [] verdict.v = "Unauthorized" -> <<"as_unauthorized", "with_authorization">>
      [] verdict.v = "Ok" -> <<>>

\* AfterConstructor replacing the constructor's error by an internal error
AfterConstructor_ErrorReplaced(r, rest) ==
    IF r.kind = "err" THEN Return(RetErr(FromOAuthError("InternalCodeError")))
    ELSE IF rest = <<>> THEN Return(r)
    ELSE Goto(Head(rest), [t |-> "response", v |-> r.val, rest |-> Tail(rest)])

\* after a constructor returned r with the modifiers rest still to apply: `?`
\* (and the final return) hand an error back as it is, a response goes on
\* to the next modifier or is returned
AfterConstructor(r, rest) ==
    IF r.kind = "err" \/ rest = <<>>
      THEN Return(r)
      ELSE Goto(Head(rest), [t |-> "response", v |-> r.val, rest |-> Tail(rest)])

\* GrantUseCode answering an invalid view itself, without asking the issuer
GrantUseCode_RejectsInvalid ==
    /\ flow = "grant" /\ pc = "prepared"
    /\ IF ~params.valid
         THEN /\ calls' = calls
              /\ Continue(Return(RetErr(FromOAuthError("InternalCodeError"))))
         ELSE \E verdict \in IssuerVerdicts :
                /\ calls' = Append(calls, Call("use_code", Arg("params", params),
                                               "handle", verdict))
                /\ Continue(Goto("json", [t |-> "data", v |-> JsonData(verdict),
                                          rest |-> Modifiers(verdict)]))
    /\ UNCHANGED <<host, flow, request, params>>

\* match issuer.use_code(&params)
GrantUseCode ==
    /\ flow = "grant" /\ pc = "prepared"
    /\ \E verdict \in IssuerVerdicts :
         /\ calls' = Append(calls, Call("use_code", Arg("params", params), "handle", verdict))
         /\ Continue(Goto("json", [t |-> "data", v |-> JsonData(verdict),
                                   rest |-> Modifiers(verdict)]))
    /\ UNCHANGED <<host, flow, request, params>>

\* the scheme of the Unauthorized verdict this invocation got from use_code
Scheme == calls[1].ret.scheme

\* Req::Response::json(&x.to_json()) in each of the three arms
GrantJson ==
    /\ flow = "grant" /\ pc = "json"
    /\ \E r \in { RetOk(json(pending.v)), RetErr(ResponseError("json")) } :
         /\ calls' = Append(calls, Call("json", Arg("data", pending.v), "handle", r))
         /\ Continue(AfterConstructor(r, pending.rest))
    /\ UNCHANGED <<host, flow, request, params>>

\* .as_client_error()
GrantAsClientError ==
    /\ flow = "grant" /\ pc = "as_client_error"
    /\ \E r \in { RetOk(as_client_error(pending.v)),
                   RetErr(ResponseError("as_client_error")) } :
         /\ calls' = Append(calls, Call("as_client_error", Arg("response", pending.v),
                                        "handle", r))
         /\ Continue(AfterConstructor(r, pending.rest))
    /\ UNCHANGED <<host, flow, request, params>>

\* .as_unauthorized()?
GrantAsUnauthorized ==
    /\ flow = "grant" /\ pc = "as_unauthorized"
    /\ \E r \in { RetOk(as_unauthorized(pending.v)),
                   RetErr(ResponseError("as_unauthorized")) } :
         /\ calls' = Append(calls, Call("as_unauthorized", Arg("response", pending.v),
                                        "handle", r))
         /\ Continue(AfterConstructor(r, pending.rest))
    /\ UNCHANGED <<host, flow, request, params>>

\* .with_authorization(&scheme)
GrantWithAuthorization ==
    /\ flow = "grant" /\ pc = "with_authorization"
    /\ \E r \in { RetOk(with_authorization(pending.v, Scheme)),
                   RetErr(ResponseError("with_authorization")) } :
         /\ calls' = Append(calls, Call("with_authorization",
                                        Arg("response", [response |-> pending.v, kind |-> Scheme]),
                                        "handle", r))
         /\ Continue(AfterConstructor(r, pending.rest))
    /\ UNCHANGED <<host, flow, request, params>>

(***************************************************************************)
(* AccessFlow                                                              *)
(***************************************************************************)
\* GuardParameter::invalid
GuardParameter_invalid == [valid |-> FALSE, token |-> None]

\* AccessFlow::prepare
AccessPrepare ==
    /\ pc = "idle"
    /\ \E h \in AuthHeaders :
         /\ request' = [authheader |-> h]
         /\ params' = IF h.ok THEN [valid |-> TRUE, token |-> h.val]
                               ELSE GuardParameter_invalid
    /\ flow' = "access"
    /\ pc' = "prepared"
    /\ result' = RetOk(Arg("prepared", "PreparedAccess"))
    /\ UNCHANGED <<host, calls, pending>>

\* verdicts of the guard for protect
AccessVerdicts == {Ok("()"), [v |-> "InvalidRequest"], [v |-> "AccessDenied"]}

\* protect_map_err with the two errors swapped
protect_map_err_Swapped(verdict) ==
    CASE verdict.v = "Ok" -> RetOk(Arg("unit", "()"))
      [] verdict.v = "InvalidRequest" -> RetErr(FromOAuthError("AccessDenied"))
      [] verdict.v = "AccessDenied" -> RetErr(FromOAuthError("InternalAccessError"))

\* guard.protect(..).map_err(|err| match err { .. }.into())
protect_map_err(verdict) ==
    CASE verdict.v = "Ok" -> RetOk(Arg("unit", "()"))
      [] verdict.v = "InvalidRequest" -> RetErr(FromOAuthError("InternalAccessError"))
      [] verdict.v = "AccessDenied" -> RetErr(FromOAuthError("AccessDenied"))

\* AccessFlow::handle
AccessHandle ==
    /\ flow = "access" /\ pc = "prepared"
    /\ \E verdict \in AccessVerdicts :
         /\ calls' = Append(calls, Call("protect", Arg("params", params), "handle", verdict))
         /\ result' = protect_map_err(verdict)
    /\ pc' = "done"
    /\ UNCHANGED <<host, flow, request, params, pending>>

\* the invocation is over; the next request starts from scratch
Reset ==
    /\ pc \in {"done", "panicked"}
    /\ flow' = "none"
    /\ pc' = "idle"
    /\ request' = NoRequest
    /\ params' = NoParams
    /\ calls' = <<>>
    /\ pending' = NoPending
    /\ result' = NoResult
    /\ host' = DefaultHost

Init ==
    /\ host = DefaultHost
    /\ flow = "none"
    /\ pc = "idle"
    /\ request = NoRequest
    /\ params = NoParams
    /\ calls = <<>>
    /\ pending = NoPending
    /\ result = NoResult

Next ==
    \/ AuthPrepare
    \/ AuthNegotiate
    \/ AuthConsent
    \/ AuthDeny
    \/ AuthAuthorize
    \/ AuthRedirectError
    \/ AuthRedirect
    \/ GrantPrepare
    \/ GrantUseCode
    \/ GrantJson
    \/ GrantAsClientError
    \/ GrantAsUnauthorized
    \/ GrantWithAuthorization
    \/ AccessPrepare
    \/ AccessHandle
    \/ Reset

Spec == Init /\ [][Next]_vars

\* one step of AuthorizationFlow::handle
AuthHandleStep ==
    \/ AuthNegotiate
    \/ AuthConsent
    \/ AuthDeny
    \/ AuthAuthorize
    \/ AuthRedirectError
    \/ AuthRedirect

\* handle is synchronous, straight-line code: once called it takes its next
\* step whenever the collaborator it called has returned
FairSpec == Spec /\ WF_vars(AuthHandleStep)

(***************************************************************************)
(* Properties                                                              *)
(***************************************************************************)
CallsOf(fn) == {i \in 1..Len(calls) : calls[i].fn = fn}
Count(fn) == Cardinality(CallsOf(fn))
Called(fn) == CallsOf(fn) # {}

BackendFns == {"negotiate", "deny", "authorize"}
Constructors == {"redirect", "redirect_error", "text", "json",
                 "as_client_error", "as_unauthorized", "with_authorization"}

\* the back-end call at position i returned the verdict v
BackendReturned(i, v) == calls[i].fn \in BackendFns /\ calls[i].ret.v = v

\* the consent call at position i answered a
ConsentAnswered(i, a) ==
    /\ calls[i].fn = "get_owner_authorization"
    /\ calls[i].ret.kind = "ok"
    /\ calls[i].ret.val.auth.a = a

\* the names of the calls handle made after its first one
RECURSIVE NamesFrom(_)
NamesFrom(i) == IF i > Len(calls) THEN <<>> ELSE <<calls[i].fn>> \o NamesFrom(i + 1)

IsPrefix(s, t) == Len(s) <= Len(t) /\ s = SubSeq(t, 1, Len(s))

\* C1: in one invocation of AuthorizationFlow::handle negotiate, deny and
\* authorize are each called at most once, deny and authorize are never both
\* called, and after an InProgress answer neither of them is called.
C1_BackendCallsAtMostOnce ==
    flow = "auth" =>
      /\ \A fn \in BackendFns : Count(fn) <= 1
      /\ ~(Called("deny") /\ Called("authorize"))
      /\ (\E i \in 1..Len(calls) : ConsentAnswered(i, "InProgress"))
            => ~Called("deny") /\ ~Called("authorize")

C1_Witness ==
    /\ flow = "auth" /\ pc = "done"
    /\ Count("negotiate") = 1
    /\ \E i \in 1..Len(calls) : ConsentAnswered(i, "InProgress")

\* C2: once a back-end call of AuthorizationFlow::handle returned Ignore the
\* invocation is over with the error InternalCodeError, no response
\* constructor was invoked, and if it was negotiate that returned Ignore the
\* consent handler was not invoked either.
C2_IgnoreIsInternalError ==
    flow = "auth" =>
      \A i \in 1..Len(calls) : BackendReturned(i, "Ignore") =>
        /\ pc = "done"
        /\ result = RetErr(FromOAuthError("InternalCodeError"))
        /\ \A fn \in Constructors : ~Called(fn)
        /\ calls[i].fn = "negotiate" => ~Called("get_owner_authorization")

C2_Witness ==
    /\ flow = "auth" /\ pc = "done"
    /\ \E i \in 1..Len(calls) : calls[i].fn = "deny" /\ BackendReturned(i, "Ignore")

\* C3: when a back-end call of AuthorizationFlow::handle returned Redirect(u),
\* handle returns what redirect_error(u) returned; u is the only error url
\* handed to redirect_error, and with the default redirect_error the url of u
\* is the only url handed to redirect and the target of the response.
C3_RedirectVerdictTarget ==
    (flow = "auth" /\ pc = "done") =>
      \A i \in 1..Len(calls) : BackendReturned(i, "Redirect") =>
        LET u == calls[i].ret.url IN
        /\ i < Len(calls)
        /\ calls[i + 1].fn = "redirect_error" /\ calls[i + 1].by = "handle"
        /\ result = calls[i + 1].ret
        /\ \A j \in CallsOf("redirect_error") : calls[j].arg.v = u
        /\ ~host.overrides_redirect_error =>
             /\ \A j \in CallsOf("redirect") : calls[j].arg.v = ErrorUrlInto(u)
             /\ result.kind = "ok" =>
                  result.val.built = "redirect" /\ result.val.target = ErrorUrlInto(u)

C3_Witness ==
    /\ flow = "auth" /\ pc = "done"
    /\ ~host.overrides_redirect_error
    /\ result.kind = "ok"
    /\ \E i \in 1..Len(calls) : calls[i].fn = "authorize" /\ BackendReturned(i, "Redirect")

\* C4: in a finished AuthorizationFlow::handle, after the answer Failed deny
\* was called and authorize was not; after Authenticated(owner) authorize was
\* called with that owner and deny was not; and when the method called
\* returned Ok(url), the last call is redirect(url) with that same url and
\* handle returns what it returned.
C4_ConsentDispatch ==
    (flow = "auth" /\ pc = "done") =>
      \A i \in 1..Len(calls) :
        /\ ConsentAnswered(i, "Failed") =>
              /\ i < Len(calls) /\ calls[i + 1].fn = "deny"
              /\ ~Called("authorize")
        /\ ConsentAnswered(i, "Authenticated") =>
              /\ i < Len(calls) /\ calls[i + 1].fn = "authorize"
              /\ calls[i + 1].arg.v = calls[i].ret.val.auth.owner
              /\ ~Called("deny")
        /\ (calls[i].fn \in {"deny", "authorize"} /\ BackendReturned(i, "Ok")) =>
              /\ Len(calls) = i + 1
              /\ calls[i + 1].fn = "redirect" /\ calls[i + 1].by = "handle"
              /\ calls[i + 1].arg.v = calls[i].ret.val
              /\ result = calls[i + 1].ret

C4_Witness ==
    /\ flow = "auth" /\ pc = "done"
    /\ result.kind = "ok"
    /\ \E i \in 1..Len(calls) : ConsentAnswered(i, "Authenticated")
    /\ \E i \in 1..Len(calls) : calls[i].fn = "authorize" /\ BackendReturned(i, "Ok")

\* C5: when the consent handler answered (InProgress, response), handle has
\* returned exactly that response as its success, and the consent call is
\* the last call of the invocation.
C5_InProgressPassthrough ==
    flow = "auth" =>
      \A i \in 1..Len(calls) : ConsentAnswered(i, "InProgress") =>
        /\ pc = "done"
        /\ result = RetOk(calls[i].ret.val.response)
        /\ i = Len(calls)

C5_Witness ==
    /\ flow = "auth" /\ pc = "done"
    /\ result = RetOk(text("login page"))
    /\ ConsentAnswered(Len(calls), "InProgress")

\* C6: after use_code returned Unauthorized(error_json, scheme) the
\* constructors GrantFlow::handle calls are json(error_json), as_unauthorized
\* and with_authorization(scheme), in this order, each on the response the
\* one before returned; as_client_error is never called; and the response
\* handle returns has the body error_json, status 401 and the header scheme.
C6_UnauthorizedChain ==
    (flow = "grant" /\ Len(calls) >= 1 /\ calls[1].ret.v = "Unauthorized") =>
      LET v == calls[1].ret IN
      /\ IsPrefix(NamesFrom(2), <<"json", "as_unauthorized", "with_authorization">>)
      /\ Len(calls) >= 2 => calls[2].arg.v = to_json(v.json_data)
      /\ Len(calls) >= 3 => calls[3].arg.v = calls[2].ret.val
      /\ Len(calls) >= 4 =>
            calls[4].arg.v = [response |-> calls[3].ret.val, kind |-> v.scheme]
      /\ ~Called("as_client_error")
      /\ (pc = "done" /\ result.kind = "ok") =>
            /\ Len(calls) = 4
            /\ result.val.body = to_json(v.json_data)
            /\ result.val.status = 401
            /\ result.val.auth = Some(v.scheme)

C6_Witness ==
    /\ flow = "grant" /\ pc = "done"
    /\ calls[1].ret.v = "Unauthorized"
    /\ result.kind = "ok"
    /\ result.val.auth = Some("Bearer")

\* C7: after use_code returned Invalid(error_json) the only constructors
\* called are json(error_json) and then as_client_error, and the response
\* returned has status 400 and no auth header; after Ok(token) the only
\* constructor called is json(token.to_json()) and the response returned
\* keeps status 200 and has no auth header.
C7_InvalidAndOkModifiers ==
    (flow = "grant" /\ Len(calls) >= 1) =>
      LET v == calls[1].ret IN
      /\ v.v = "Invalid" =>
            /\ IsPrefix(NamesFrom(2), <<"json", "as_client_error">>)
            /\ Len(calls) >= 2 => calls[2].arg.v = to_json(v.json_data)
            /\ Len(calls) >= 3 => calls[3].arg.v = calls[2].ret.val
            /\ (pc = "done" /\ result.kind = "ok") =>
                  /\ Len(calls) = 3
                  /\ result.val.body = to_json(v.json_data)
                  /\ result.val.status = 400
                  /\ result.val.auth = None
      /\ v.v = "Ok" =>
            /\ IsPrefix(NamesFrom(2), <<"json">>)
            /\ Len(calls) >= 2 => calls[2].arg.v = to_json(v.val)
            /\ (pc = "done" /\ result.kind = "ok") =>
                  /\ Len(calls) = 2
                  /\ result.val.body = to_json(v.val)
                  /\ result.val.status = 200
                  /\ result.val.auth = None

C7_Witness ==
    /\ flow = "grant" /\ pc = "done"
    /\ calls[1].ret.v = "Invalid"
    /\ result.kind = "ok"
    /\ result.val.status = 400

\* C8: a finished GrantFlow::handle returns what the last constructor it
\* called returned: a json response when every constructor succeeded, else
\* the error of the constructor that failed, after which no other
\* constructor was called.
C8_OnlyConstructorErrors ==
    (flow = "grant" /\ pc = "done") =>
      /\ Len(calls) >= 2
      /\ \A i \in 2..Len(calls) : calls[i].fn \in Constructors
      /\ \A i \in 2..(Len(calls) - 1) : calls[i].ret.kind = "ok"
      /\ result = calls[Len(calls)].ret
      /\ result.kind = "ok" => result.val.built = "json"
      /\ result.kind = "err" => result.error = ResponseError(calls[Len(calls)].fn)
      /\ result.kind \in {"ok", "err"}

C8_Witness ==
    /\ flow = "grant" /\ pc = "done"
    /\ calls[1].ret.v = "Unauthorized"
    /\ Len(calls) = 3
    /\ result = RetErr(ResponseError("as_unauthorized"))

\* the request reported a malformed input to the prepare that ran
MalformedInput ==
    CASE flow = "auth" -> ~request.query.ok
      [] flow = "grant" -> ~request.authheader.ok \/ ~request.urlbody.ok
      [] flow = "access" -> ~request.authheader.ok
      [] OTHER -> FALSE

\* C9: whenever the request reports a malformed input, prepare completes and
\* returns a prepared value whose parameter view has valid = false; it
\* neither returns an error nor panics.
C9_PrepareTotalOnMalformedInput ==
    (pc # "idle" /\ MalformedInput) =>
      /\ pc # "panicked"
      /\ result.kind # "panic"
      /\ params.valid = FALSE

\* an Authorization header that is present and malformed: no "Basic " prefix,
\* no ':' after it, or a secret part that is not base64
MalformedHeader(h) ==
    \/ Len(h) < 6
    \/ \E i \in 1..6 : h[i] # Chars_Basic[i]
    \/ \A i \in 7..Len(h) : h[i] # ":"
    \/ \E i \in 7..Len(h) :
          /\ h[i] = ":"
          /\ \A j \in 7..(i - 1) : h[j] # ":"
          /\ ~base64_decode(SubSeq(h, i + 1, Len(h))).ok

\* C10: when GrantFlow::prepare ran on a request whose Authorization header
\* is present and malformed, the parameter view has valid = false and no
\* field set, the authorization field included, whatever the body holds.
C10_MalformedHeaderInvalid ==
    (/\ flow = "grant" /\ pc # "idle"
     /\ request.authheader.ok /\ request.authheader.val.some
     /\ MalformedHeader(request.authheader.val.val)) =>
      /\ pc # "panicked"
      /\ params.valid = FALSE
      /\ params.authorization = None
      /\ params = AccessTokenParameter_invalid

C10_Witness ==
    /\ flow = "grant" /\ pc = "prepared"
    /\ request.authheader = ReqOk(Some(<<"B", "a", "s", "i", "c", " ", "a", "p", "p", ":", "c", "*", "M", "=">>))
    /\ request.urlbody.ok
    /\ "client_id" \in DOMAIN request.urlbody.val
    /\ request.urlbody.val["client_id"] = Repeated(1)
    /\ params.valid = FALSE

\* the field of a view that a key of the mapping m must give: the value of
\* the key when it has exactly one, else nothing
FieldOf(m, k) ==
    IF k \in DOMAIN m /\ Len(m[k]) = 1 THEN Some(m[k][1]) ELSE None

\* GrantFlow::prepare ran on a request without Authorization header
GrantPreparedWithoutHeader ==
    /\ flow = "grant" /\ pc # "idle"
    /\ request.authheader = ReqOk(None)

\* the view of a request without header: valid, no authorization, the four
\* fields taken from the body
ViewOfBodyAlone ==
    /\ pc # "panicked"
    /\ params.valid = TRUE
    /\ params.authorization = None
    /\ request.urlbody.ok
    /\ \A k \in GrantKeys : params[k] = FieldOf(request.urlbody.val, k)

RECURSIVE FirstColon(_, _)
FirstColon(bytes, i) ==
    IF i > Len(bytes) THEN 0
    ELSE IF bytes[i] = 58 THEN i ELSE FirstColon(bytes, i + 1)

\* the header is "Basic " followed by the base64 encoding of id ":" secret
BasicBlobHeader(h) ==
    /\ starts_with(h, Chars_Basic)
    /\ base64_decode(SubSeq(h, 7, Len(h))).ok
    /\ FirstColon(base64_decode(SubSeq(h, 7, Len(h))).val, 1) > 0

\* C12: when GrantFlow::prepare ran on a well-formed body and a header that
\* is "Basic " followed by the base64 encoding of id ":" secret, the view is
\* valid and its authorization is (id, bytes of secret): for
\* Basic YXBwOnMzY3JldA== the pair (app, s3cret).
C12_BasicBlobDecodedThenSplit ==
    (/\ flow = "grant" /\ pc # "idle"
     /\ request.authheader.ok /\ request.authheader.val.some
     /\ BasicBlobHeader(request.authheader.val.val)
     /\ request.urlbody.ok) =>
      LET h == request.authheader.val.val
          bytes == base64_decode(SubSeq(h, 7, Len(h))).val
          colon == FirstColon(bytes, 1)
      IN  /\ params.valid = TRUE
          /\ params.authorization.some
          /\ params.authorization.val.pass = SubSeq(bytes, colon + 1, Len(bytes))
          /\ h = <<"B", "a", "s", "i", "c", " ", "Y", "X", "B", "w", "O", "n", "M", "z", "Y", "3", "J", "l", "d", "A", "=", "=">> =>
                params.authorization = Some([id |-> <<"a", "p", "p">>,
                                             pass |-> <<115, 51, 99, 114, 101, 116>>])

\* the mapping m without the key k
Without(m, k) == [j \in DOMAIN m \ {k} |-> m[j]]

\* the keys of m that do not have exactly one value
NotSingle(m) == {k \in DOMAIN m : Len(m[k]) # 1}

\* C13: in the view AuthorizationFlow::prepare extracted from a query, and
\* in the view GrantFlow::prepare extracted from a body, a recognized key's
\* field is present exactly if the key has exactly one value, and is that
\* value; and the view is the one extracted from the mapping without any one
\* of its keys that has no value or several.
C13_SingleValuedKeysOnly ==
    /\ (flow = "auth" /\ pc # "idle" /\ request.query.ok) =>
          LET m == request.query.val IN
          /\ \A k \in AuthKeys : params[k] = FieldOf(m, k)
          /\ \A k \in NotSingle(m) : params = extract_parameters(Without(m, k))
    /\ (flow = "grant" /\ pc # "idle" /\ params.valid) =>
          LET m == request.urlbody.val IN
          /\ \A k \in GrantKeys : params[k] = FieldOf(m, k)
          /\ \A k \in NotSingle(m) :
                [params EXCEPT !.authorization = None] =
                    extract_access_token(Without(m, k))

C13_Witness ==
    /\ flow = "auth" /\ pc = "prepared"
    /\ request.query.ok
    /\ "client_id" \in DOMAIN request.query.val
    /\ Len(request.query.val["client_id"]) = 2
    /\ "state" \in DOMAIN request.query.val
    /\ Len(request.query.val["state"]) = 1
    /\ "scope" \in DOMAIN request.query.val
    /\ Len(request.query.val["scope"]) = 0
    /\ params.client_id = None
    /\ params.state = Some("v1")

\* C15: a finished AccessFlow::handle made exactly one call, protect, and
\* returned success for Ok, the error InternalAccessError for InvalidRequest
\* and the error AccessDenied for AccessDenied, whatever the request held;
\* before it finishes it has made no call at all.
C15_AccessOutcome ==
    flow = "access" =>
      /\ pc # "done" => calls = <<>>
      /\ pc = "done" =>
            /\ Len(calls) = 1
            /\ calls[1].fn = "protect" /\ calls[1].by = "handle"
            /\ calls[1].ret.v = "Ok" => result = RetOk(Arg("unit", "()"))
            /\ calls[1].ret.v = "InvalidRequest" =>
                  result = RetErr(FromOAuthError("InternalAccessError"))
            /\ calls[1].ret.v = "AccessDenied" =>
                  result = RetErr(FromOAuthError("AccessDenied"))
            /\ calls[1].ret.v \in {"Ok", "InvalidRequest", "AccessDenied"}

C15_Witness ==
    /\ flow = "access" /\ pc = "done"
    /\ request.authheader = ReqOk(None)
    /\ calls[1].ret.v = "AccessDenied"
    /\ result = RetErr(FromOAuthError("AccessDenied"))

\* the call at position i is a response constructor called by handle
HandleConstructs(i) == calls[i].fn \in Constructors /\ calls[i].by = "handle"

\* C16: in AuthorizationFlow::handle negotiate is the first call; the consent
\* handler is called only second and after negotiate returned Ok; deny is
\* called only third and after the answer Failed, authorize only third and
\* after the answer Authenticated; and a response constructor called by handle
\* ends the invocation (only the redirect the default redirect_error
\* forwards to follows it).
C16_DocumentedOrder ==
    flow = "auth" =>
      /\ pc = "prepared" => calls = <<>>
      /\ \A i \in 1..Len(calls) :
           /\ i = 1 => calls[i].fn = "negotiate"
           /\ calls[i].fn = "negotiate" => i = 1
           /\ calls[i].fn = "get_owner_authorization" =>
                 i = 2 /\ BackendReturned(1, "Ok")
           /\ calls[i].fn = "deny" => i = 3 /\ ConsentAnswered(2, "Failed")
           /\ calls[i].fn = "authorize" => i = 3 /\ ConsentAnswered(2, "Authenticated")
           /\ HandleConstructs(i) =>
                 /\ pc = "done"
                 /\ \A j \in (i + 1)..Len(calls) : calls[j].by = "redirect_error"
                 /\ Len(calls) <= i + 1
                 /\ i > 1 /\ calls[i - 1].fn \in BackendFns

C16_Witness ==
    /\ flow = "auth" /\ pc = "done"
    /\ Len(calls) = 4
    /\ calls[3].fn = "authorize"
    /\ HandleConstructs(4)

\* C17: when the consent handler returned an error, handle has returned that
\* error as it is, the consent call is the last call of the invocation, and
\* no deny, authorize or response constructor was called.
C17_ConsentErrorPropagates ==
    flow = "auth" =>
      \A i \in 1..Len(calls) :
        (calls[i].fn = "get_owner_authorization" /\ calls[i].ret.kind = "err") =>
          /\ pc = "done"
          /\ result = calls[i].ret
          /\ result = RetErr(ConsentError)
          /\ i = Len(calls)
          /\ ~Called("deny") /\ ~Called("authorize")
          /\ \A fn \in Constructors : ~Called(fn)

C17_Witness ==
    /\ flow = "auth" /\ pc = "done"
    /\ Len(calls) = 2
    /\ calls[2].fn = "get_owner_authorization"
    /\ result = RetErr(ConsentError)

\* the first back-end method of each flow
FirstMethod ==
    CASE flow = "auth" -> "negotiate"
      [] flow = "grant" -> "use_code"
      [] flow = "access" -> "protect"
      [] OTHER -> "none"

\* C18: handle never answers by itself on the valid flag: from every prepared
\* value, valid or not, the flow's first back-end method can be called and
\* nothing was called before it; once handle has moved on, that method was
\* called exactly once, first, with the prepared view; and a finished handle
\* returned what the verdict of the back-end dictates.
C18_BackendDecides ==
    /\ pc = "prepared" =>
          /\ calls = <<>>
          /\ flow = "auth" => ENABLED AuthNegotiate
          /\ flow = "grant" => ENABLED GrantUseCode
          /\ flow = "access" => ENABLED AccessHandle
    /\ pc \notin {"idle", "prepared", "panicked"} =>
          /\ Len(calls) >= 1
          /\ calls[1].fn = FirstMethod
          /\ calls[1].arg = Arg("params", params)
          /\ Count(FirstMethod) = 1
    /\ (pc = "done" /\ Len(calls) >= 1) =>
          /\ (flow = "auth" /\ calls[1].ret.v = "Ignore") =>
                result = RetErr(FromOAuthError("InternalCodeError"))
          /\ (flow = "auth" /\ calls[1].ret.v = "Redirect") =>
                calls[2] = Call("redirect_error", Arg("error_url", calls[1].ret.url),
                                "handle", result)
          /\ (flow = "grant" /\ calls[1].ret.v = "Ok") =>
                Len(calls) = 2 /\ calls[2].arg.v = to_json(calls[1].ret.val)
          /\ (flow = "grant" /\ calls[1].ret.v # "Ok") =>
                calls[2].arg.v = to_json(calls[1].ret.json_data)
          /\ flow = "grant" => result = calls[Len(calls)].ret
          /\ (flow = "access" /\ calls[1].ret.v = "AccessDenied") =>
                result = RetErr(FromOAuthError("AccessDenied"))
          /\ (flow = "access" /\ calls[1].ret.v = "InvalidRequest") =>
                result = RetErr(FromOAuthError("InternalAccessError"))
          /\ (flow = "access" /\ calls[1].ret.v = "Ok") => result.kind = "ok"

C18_Witness ==
    /\ flow = "grant" /\ pc = "done"
    /\ params.valid = FALSE
    /\ calls[1].fn = "use_code"
    /\ calls[1].arg.v.valid = FALSE
    /\ calls[1].ret.v = "Ok"
    /\ result.kind = "ok"

\* the terminal outcomes of AuthorizationFlow::handle
Redirected ==
    /\ result.kind = "ok"
    /\ calls[Len(calls)].fn \in {"redirect", "redirect_error"}
Errored == result.kind = "err"
Passthrough ==
    /\ result.kind = "ok"
    /\ ConsentAnswered(Len(calls), "InProgress")

\* how many of the given conditions hold
HowMany(conds) == Cardinality({i \in 1..Len(conds) : conds[i]})

\* the positions of AuthorizationFlow::handle and the calls made on reaching
\* each: Prepared -> Negotiated -> {Denied, Authorized} -> terminal
AuthStateMachine ==
    flow = "auth" =>
      /\ pc \in {"prepared", "negotiated", "deny", "authorize",
                  "redirect_error", "redirect", "done"}
      /\ pc = "prepared" => Len(calls) = 0
      /\ pc = "negotiated" => Len(calls) = 1
      /\ pc \in {"deny", "authorize"} => Len(calls) = 2
      /\ pc \in {"redirect_error", "redirect"} => Len(calls) \in {1, 3}
      /\ pc \notin {"prepared", "done"} => result = NoResult
      /\ pc = "done" => HowMany(<<Redirected, Errored, Passthrough>>) = 1
      /\ Cardinality({i \in 3..Len(calls) : calls[i].fn \in BackendFns}) <= 1
      /\ Cardinality({i \in 1..Len(calls) : calls[i].fn \in BackendFns}) <= 2

\* C19: every AuthorizationFlow::handle invocation follows the state machine
\* Prepared -> Negotiated -> {Denied, InProgress, Authorized} -> terminal,
\* makes at most one back-end call after the consent handler answered, ends
\* in exactly one of Redirected, Errored and Passthrough, and does end: a
\* prepared invocation eventually is done.
C19_Terminates ==
    /\ []AuthStateMachine
    /\ (flow = "auth" /\ pc = "prepared") ~> (flow = "auth" /\ pc = "done")

C19_Witness ==
    /\ flow = "auth" /\ pc = "done"
    /\ Redirected
    /\ Len(calls) = 4
    /\ calls[3].fn = "deny"

\* C20: in a finished AuthorizationFlow::handle, redirect_error was called
\* exactly if a back-end call returned Redirect, and redirect was called by
\* handle itself exactly if deny or authorize returned Ok(url); so the url
\* deny() returned as Ok reaches redirect and never redirect_error, also
\* with a host that has its own redirect_error.
C20_RedirectHookOnlyForErrors ==
    (flow = "auth" /\ pc = "done") =>
      /\ Called("redirect_error") <=>
            \E i \in 1..Len(calls) : BackendReturned(i, "Redirect")
      /\ (\E j \in CallsOf("redirect") : calls[j].by = "handle") <=>
            \E i \in 1..Len(calls) :
               calls[i].fn \in {"deny", "authorize"} /\ BackendReturned(i, "Ok")
      /\ \A i \in CallsOf("deny") : BackendReturned(i, "Ok") =>
            /\ ~Called("redirect_error")
            /\ calls[i + 1] = Call("redirect", Arg("url", calls[i].ret.val), "handle", result)

C20_Witness ==
    /\ flow = "auth" /\ pc = "done"
    /\ host.overrides_redirect_error
    /\ Len(calls) = 4
    /\ calls[3].fn = "deny"
    /\ calls[3].ret = Ok(Url("https://c/cb", <<"error=access_denied", "state=xyz">>))
    /\ result = RetOk(redirect(Url("https://c/cb", <<"error=access_denied", "state=xyz">>)))

====
